---- MODULE Spec2Model ----
(***************************************************************************)
(* Action recording and playback core of Giada: the action store, the     *)
(* ActionRecorder protocol (core/actions/actionRecorder.cpp) and the       *)
(* per-block audio callback (core/engine.cpp).                             *)
(*                                                                         *)
(* The recorder's handlers are written as functions from a state record    *)
(* to a state record, so that a handler that calls other handlers          *)
(* (updateEnvelopeAction = deleteEnvelopeAction ; recordEnvelopeAction) is *)
(* one atomic action of the model, exactly as it is one call in the code.  *)
(***************************************************************************)
EXTENDS Integers, Sequences, FiniteSets, TLC

VARIABLES
    actions,       \* m_actions: the committed action store (set of Action records)
    layout,        \* m_model.get(): the canonical, mutable layout
    published,     \* the snapshot made current by the last m_model.swap()
    swapType,      \* type of the last swap issued by the latest handler, "-" if none
    nextActionId,  \* actionFactory: the last action id handed out
    liveActions,   \* m_liveActions: the live recording buffer
    fault,         \* "none", or the hard failure that stopped the program
    lastOp,        \* the latest recorder handler that ran: name, arguments, result
    audio,         \* the audio thread: position in audioCallback and what it read
    threads,       \* what the entry points did with their thread registration
    events         \* m_eventDispatcher: the events pumped and not yet run

vars == <<actions, layout, published, swapType, nextActionId, liveActions,
          fault, lastOp, audio, threads, events>>

-----------------------------------------------------------------------------
(* Bounds of the model *)

\* lastFrameInLoop, as the sequencer hands it to the envelope operations
LastFrame == 3
\* envelope editing stops once the id allocator has handed out this many ids
MaxEnvActionId == 5
\* number of events live-recorded in one run
MaxLive == 4
\* ids a channel may use up before it is cloned
MaxCloneSrcId == 6
\* ids handed out while the audio callback runs against the writers
MaxAudioActionId == 2
\* frames of one audio block (bufferSize)
BufferSize == 2
\* a tempo or rate change is applied while no action lies beyond this frame
MaxRescaleFrame == 12
\* ids handed out before and between tempo and rate changes
MaxRescaleActionId == 3
\* ids handed out while notes, samples and envelope points are recorded
MaxRecordActionId == 5
\* ids handed out between two resets of the recorder, not counting a clone's
MaxResetActionId == 2

\* events the dispatcher holds at most before it runs one
MaxQueue == 2

Channels == {1, 2}
Notes == {60, 64}
\* envelope values an editor may ask for
Values == {64}

\* core/const.h, used at actionRecorder.cpp:172 and :421
G_MAX_VELOCITY == 127
\* core/const.h, used at actionRecorder.cpp:189 and :213: the length given to
\* a note whose end would lie beyond the loop, scaled here to the loop's size
G_DEFAULT_ACTION_SIZE == 2
G_DEFAULT_BPM == 120

NOTE_ON == "NOTE_ON"
NOTE_OFF == "NOTE_OFF"
NOTE_KILL == "NOTE_KILL"
CHANNEL_CC == "CC"
ANY_TYPE == "ANY"

SINGLE_PRESS == "SINGLE_PRESS"
SINGLE_BASIC == "SINGLE_BASIC"

-----------------------------------------------------------------------------
(* Actions and MIDI events *)

makeFrom3Bytes(status, d1, d2) == [status |-> status, note |-> d1, velocity |-> d2]

makeAction(id, channelId, frame, e) ==
    [id |-> id, channelId |-> channelId, frame |-> frame,
     status |-> e.status, note |-> e.note, velocity |-> e.velocity,
     prevId |-> 0, nextId |-> 0]

\* Action{}: the invalid action (id 0)
NoAction == makeAction(0, 0, 0, makeFrom3Bytes("-", 0, 0))

isValid(a) == a.id # 0

-----------------------------------------------------------------------------
(* The action store (Actions), one operator per operation of the timeline *)

exists(S, id) == \E a \in S : a.id = id

findAction(S, id) == IF exists(S, id) THEN CHOOSE a \in S : a.id = id ELSE NoAction

actions_rec(S, id, channelId, frame, e) == S \cup {makeAction(id, channelId, frame, e)}

actions_recBatch(S, batch) == S \cup batch

actions_deleteAction(S, id) == {a \in S : a.id # id}

actions_deleteAction2(S, currId, nextId) == {a \in S : a.id # currId /\ a.id # nextId}

\* Rewrites the links of action id and splices it between its two siblings:
\* the sibling named prevId gets nextId = id, the one named nextId gets prevId = id.
actions_updateSiblings(S, id, prevId, nextId) ==
    { IF a.id = id
        THEN [a EXCEPT !.prevId = prevId, !.nextId = nextId]
        ELSE [a EXCEPT !.nextId = IF a.id = prevId THEN id ELSE @,
                       !.prevId = IF a.id = nextId THEN id ELSE @] : a \in S }

actions_updateEvent(S, id, e) ==
    { IF a.id = id
        THEN [a EXCEPT !.status = e.status, !.note = e.note, !.velocity = e.velocity]
        ELSE a : a \in S }

\* hasActions(channelId) without a type asks for any type
\* the frames the store has actions on
actions_keyFrames(S) == {a.frame : a \in S}

\* every stored action gets the frame f gives for its frame; ids, payloads
\* and links are kept
actions_updateKeyFrames(S, f) == {[a EXCEPT !.frame = f[a.frame]] : a \in S}

actions_hasActions(S, channelId, type) ==
    \E a \in S : a.channelId = channelId /\ (type = ANY_TYPE \/ a.status = type)

actions_clearActions(S, channelId, type) ==
    {a \in S : ~(a.channelId = channelId /\ a.status = type)}

actions_clearChannel(S, channelId) == {a \in S : a.channelId # channelId}

actions_getActionsOnFrame(S, f) == {a \in S : a.frame = f}

actions_getActionsOnChannel(S, channelId) == {a \in S : a.channelId = channelId}

\* The nearest action of the type on the channel at or before frame f; among
\* actions on one frame the one recorded first. Action{} when there is none.
actions_getClosestAction(S, channelId, f, type) ==
    LET C == {a \in S : a.channelId = channelId /\ a.status = type /\ a.frame =< f}
        M == {a \in C : \A b \in C : b.frame =< a.frame}
    IN  IF C = {} THEN NoAction
        ELSE CHOOSE a \in M : \A b \in M : a.id =< b.id

\* forEachAction visits the store by frame, and in recording order on one frame
Before(a, b) == a.frame < b.frame \/ (a.frame = b.frame /\ a.id < b.id)

RECURSIVE forEachOrder(_)
forEachOrder(S) ==
    IF S = {} THEN <<>>
    ELSE LET a == CHOOSE x \in S : \A y \in S \ {x} : Before(x, y)
         IN  <<a>> \o forEachOrder(S \ {a})

-----------------------------------------------------------------------------
(* The state record the handlers work on *)

Snapshot(S, l) == [actions |-> S, layout |-> l]

Cur == [actions |-> actions, layout |-> layout, published |-> published,
        swapType |-> "-", nextActionId |-> nextActionId,
        liveActions |-> liveActions, fault |-> fault, ret |-> "-"]

\* m_model.swap(type): the canonical state becomes the current snapshot
swap(st, type) ==
    [st EXCEPT !.published = Snapshot(st.actions, st.layout), !.swapType = type]

\* actionFactory::getNewActionId()
getNewActionId(st) == st.nextActionId + 1

setHasActions(st, channelId, v) ==
    [st EXCEPT !.layout.hasActions[channelId] = v]

raise(st, what) == [st EXCEPT !.fault = what]

-----------------------------------------------------------------------------
(* ActionRecorder: private helpers *)

hasActions(st, channelId, type) == actions_hasActions(st.actions, channelId, type)

getClosestAction(st, channelId, f, type) ==
    actions_getClosestAction(st.actions, channelId, f, type)

\* Action ActionRecorder::rec(ID, Frame, MidiEvent); the new action has id
\* getNewActionId(st)
rec(st, channelId, frame, e) ==
    LET s1 == setHasActions(st, channelId, TRUE)
        id == getNewActionId(s1)
    IN  [s1 EXCEPT !.actions = actions_rec(s1.actions, id, channelId, frame, e),
                   !.nextActionId = id]

\* void ActionRecorder::rec(ID, Frame f1, Frame f2, MidiEvent e1, MidiEvent e2)
rec2(st, channelId, f1, f2, e1, e2) ==
    LET s1  == setHasActions(st, channelId, TRUE)
        id1 == getNewActionId(s1)
        id2 == id1 + 1
        a1  == [makeAction(id1, channelId, f1, e1) EXCEPT !.nextId = id2]
        a2  == [makeAction(id2, channelId, f2, e2) EXCEPT !.prevId = id1]
    IN  [s1 EXCEPT !.actions = actions_recBatch(s1.actions, {a1, a2}),
                   !.nextActionId = id2]

updateSiblings(st, id, prevId, nextId) ==
    [st EXCEPT !.actions = actions_updateSiblings(st.actions, id, prevId, nextId)]

updateEvent(st, id, e) ==
    [st EXCEPT !.actions = actions_updateEvent(st.actions, id, e)]

deleteAction(st, channelId, id) ==
    LET s1 == [st EXCEPT !.actions = actions_deleteAction(st.actions, id)]
        s2 == setHasActions(s1, channelId, hasActions(s1, channelId, ANY_TYPE))
    IN  swap(s2, "HARD")

deleteAction2(st, channelId, currId, nextId) ==
    LET s1 == [st EXCEPT !.actions = actions_deleteAction2(st.actions, currId, nextId)]
        s2 == setHasActions(s1, channelId, hasActions(s1, channelId, ANY_TYPE))
    IN  swap(s2, "HARD")

clearActions(st, channelId, type) ==
    LET s1 == [st EXCEPT !.actions = actions_clearActions(st.actions, channelId, type)]
        s2 == setHasActions(s1, channelId, hasActions(s1, channelId, ANY_TYPE))
    IN  swap(s2, "HARD")

clearChannel(st, channelId) ==
    LET s1 == setHasActions(st, channelId, FALSE)
    IN  [s1 EXCEPT !.actions = actions_clearChannel(s1.actions, channelId)]

clearAllActions(st) ==
    LET s1 == [st EXCEPT !.layout.hasActions = [c \in Channels |-> FALSE]]
        s2 == swap(s1, "HARD")
    IN  [s2 EXCEPT !.actions = {}]

areComposite(a1, a2) ==
    /\ a1.status = NOTE_ON
    /\ a2.status = NOTE_OFF
    /\ a1.note = a2.note
    /\ a1.channelId = a2.channelId

\* fixVerticalEnvActions as it would be if a frame that still collides were kept
fixVerticalEnvActions_noReject(f, a1, a2) ==
    IF a1.frame = f THEN f + 1
    ELSE IF a2.frame = f THEN f - 1
    ELSE f

fixVerticalEnvActions(f, a1, a2) ==
    LET g == IF a1.frame = f THEN f + 1
             ELSE IF a2.frame = f THEN f - 1
             ELSE f
    IN  IF a1.frame = g \/ a2.frame = g THEN -1 ELSE g

isSinglePressMode(st, channelId) == st.layout.mode[channelId] = SINGLE_PRESS

-----------------------------------------------------------------------------
(* ActionRecorder: envelope operations *)

\* a.prev and a.next are the stored actions a.prevId and a.nextId name
isBoundaryEnvelopeAction(S, a) ==
    findAction(S, a.prevId).frame > a.frame \/ findAction(S, a.nextId).frame < a.frame

\* recordFirstEnvelopeAction as it would be with the requested value on the
\* boundary at frame 0
recordFirstEnvelopeAction_valueAtBegin(st, channelId, frame, value, lastFrameInLoop) ==
    LET e1 == makeFrom3Bytes(CHANNEL_CC, 0, G_MAX_VELOCITY)
        e2 == makeFrom3Bytes(CHANNEL_CC, 0, value)
        s1 == rec(st, channelId, 0, e2)
        s2 == rec(s1, channelId, frame, e2)
        s3 == rec(s2, channelId, lastFrameInLoop, e1)
        a1 == s1.nextActionId
        a2 == s2.nextActionId
        a3 == s3.nextActionId
        s4 == updateSiblings(s3, a1, a3, a2)
        s5 == updateSiblings(s4, a2, a1, a3)
    IN  updateSiblings(s5, a3, a2, a1)

recordFirstEnvelopeAction(st, channelId, frame, value, lastFrameInLoop) ==
    LET e1 == makeFrom3Bytes(CHANNEL_CC, 0, G_MAX_VELOCITY)
        e2 == makeFrom3Bytes(CHANNEL_CC, 0, value)
        s1 == rec(st, channelId, 0, e1)
        s2 == rec(s1, channelId, frame, e2)
        s3 == rec(s2, channelId, lastFrameInLoop, e1)
        a1 == s1.nextActionId
        a2 == s2.nextActionId
        a3 == s3.nextActionId
        s4 == updateSiblings(s3, a1, a3, a2)
        s5 == updateSiblings(s4, a2, a1, a3)
    IN  updateSiblings(s5, a3, a2, a1)

recordNonFirstEnvelopeAction(st, channelId, frame, value) ==
    LET a1 == getClosestAction(st, channelId, frame, CHANNEL_CC)
        a3 == findAction(st.actions, a1.nextId)
        f  == fixVerticalEnvActions(frame, a1, a3)
        e2 == makeFrom3Bytes(CHANNEL_CC, 0, value)
        s1 == rec(st, channelId, f, e2)
    IN  IF ~isValid(a1) \/ ~isValid(a3) THEN raise(st, "assert")
        ELSE IF f = -1 THEN st
        ELSE updateSiblings(s1, s1.nextActionId, a1.id, a3.id)

recordEnvelopeAction(st, channelId, frame, value, lastFrameInLoop) ==
    IF ~hasActions(st, channelId, CHANNEL_CC)
        THEN recordFirstEnvelopeAction(st, channelId, frame, value, lastFrameInLoop)
        ELSE recordNonFirstEnvelopeAction(st, channelId, frame, value)

\* deleteEnvelopeAction as it would be if a boundary took the whole channel
\* with it
deleteEnvelopeAction_clearChannel(st, channelId, a) ==
    IF ~exists(st.actions, a.prevId) \/ ~exists(st.actions, a.nextId)
        THEN raise(st, "assert")
    ELSE IF isBoundaryEnvelopeAction(st.actions, a)
        THEN swap(clearChannel(st, channelId), "HARD")
    ELSE deleteAction(st, channelId, a.id)

\* the non-boundary branch as it would be with the action deleted before
\* its neighbours are relinked
deleteEnvelopeAction_deleteFirst(st, channelId, a) ==
    LET a1     == findAction(st.actions, a.prevId)
        a1prev == findAction(st.actions, a1.prevId)
        a3     == findAction(st.actions, a.nextId)
        a3next == findAction(st.actions, a3.nextId)
        s1     == deleteAction(st, channelId, a.id)
        s2     == updateSiblings(s1, a1.id, a1prev.id, a3.id)
        s3     == updateSiblings(s2, a3.id, a1.id, a3next.id)
    IN  <<s1, s2, s3>>

\* the non-boundary branch of deleteEnvelopeAction, statement by statement:
\* the states after each of updateSiblings, updateSiblings, deleteAction
deleteEnvelopeAction_steps(st, channelId, a) ==
    LET a1     == findAction(st.actions, a.prevId)
        a1prev == findAction(st.actions, a1.prevId)
        a3     == findAction(st.actions, a.nextId)
        a3next == findAction(st.actions, a3.nextId)
        s1     == updateSiblings(st, a1.id, a1prev.id, a3.id)
        s2     == updateSiblings(s1, a3.id, a1.id, a3next.id)
        s3     == deleteAction(s2, channelId, a.id)
    IN  <<s1, s2, s3>>

deleteEnvelopeAction(st, channelId, a) ==
    LET a1     == findAction(st.actions, a.prevId)
        a1prev == findAction(st.actions, a1.prevId)
        a3     == findAction(st.actions, a.nextId)
        a3next == findAction(st.actions, a3.nextId)
    IN  IF ~isValid(a1) \/ ~isValid(a3) THEN raise(st, "assert")
        ELSE IF isBoundaryEnvelopeAction(st.actions, a)
            THEN clearActions(st, channelId, a.status)
        ELSE IF ~isValid(a1prev) \/ ~isValid(a3next) THEN raise(st, "null")
        ELSE deleteEnvelopeAction_steps(st, channelId, a)[3]

\* updateEnvelopeAction as it would be if every action were given its new
\* value in place
updateEnvelopeAction_inPlace(st, channelId, a, f, value, lastFrameInLoop) ==
    IF ~exists(st.actions, a.prevId) \/ ~exists(st.actions, a.nextId)
        THEN raise(st, "assert")
    ELSE updateEvent(st, a.id, makeFrom3Bytes(CHANNEL_CC, 0, value))

updateEnvelopeAction(st, channelId, a, f, value, lastFrameInLoop) ==
    IF ~exists(st.actions, a.prevId) \/ ~exists(st.actions, a.nextId)
        THEN raise(st, "assert")
    ELSE IF isBoundaryEnvelopeAction(st.actions, a)
        THEN updateEvent(st, a.id, makeFrom3Bytes(CHANNEL_CC, 0, value))
    ELSE LET s1 == deleteEnvelopeAction(st, channelId, a)
         IN  IF s1.fault # "none" THEN s1
             ELSE recordEnvelopeAction(s1, channelId, f, value, lastFrameInLoop)

-----------------------------------------------------------------------------
(* ActionRecorder: live recording *)

\* liveRec as it would be if it went through rec() and raised the channel's
\* hasActions flag
liveRec_flag(st, channelId, e, globalFrame) ==
    LET s1 == setHasActions(st, channelId, TRUE)
        id == getNewActionId(s1)
    IN  [s1 EXCEPT !.liveActions = Append(@, makeAction(id, channelId, globalFrame, e)),
                   !.nextActionId = id]

liveRec(st, channelId, e, globalFrame) ==
    LET id == getNewActionId(st)
    IN  [st EXCEPT !.liveActions = Append(@, makeAction(id, channelId, globalFrame, e)),
                   !.nextActionId = id]

\* The pairing as it would be with the search started at the buffer's begin
consolidatePair_fromBegin(L, i) ==
    LET J == {j \in 1 .. Len(L) : areComposite(L[i], L[j])}
        j == CHOOSE x \in J : \A y \in J : x =< y
    IN  IF J = {} THEN L
        ELSE [L EXCEPT ![i].nextId = L[j].id, ![j].prevId = L[i].id]

\* void ActionRecorder::consolidate(const Action& a1, std::size_t i), on the
\* buffer L with a1 = L[i] (positions count from 1): the search starts at a1
consolidatePair(L, i) ==
    LET J == {j \in i .. Len(L) : areComposite(L[i], L[j])}
        j == CHOOSE x \in J : \A y \in J : x =< y
    IN  IF J = {} THEN L
        ELSE [L EXCEPT ![i].nextId = L[j].id, ![j].prevId = L[i].id]

RECURSIVE consolidateFrom(_, _)
consolidateFrom(L, i) ==
    IF i > Len(L) THEN L ELSE consolidateFrom(consolidatePair(L, i), i + 1)

\* consolidate as it would be if only the paired actions were committed
consolidate_onlyPaired(st) ==
    LET L == consolidateFrom(st.liveActions, 1)
    IN  [st EXCEPT !.actions = actions_recBatch(@, {L[i] : i \in {j \in DOMAIN L :
                                     L[j].prevId # 0 \/ L[j].nextId # 0}}),
                   !.liveActions = <<>>,
                   !.ret = {L[i].channelId : i \in DOMAIN L}]

\* std::unordered_set<ID> ActionRecorder::consolidate()
consolidate(st) ==
    LET L == consolidateFrom(st.liveActions, 1)
    IN  [st EXCEPT !.actions = actions_recBatch(@, {L[i] : i \in DOMAIN L}),
                   !.liveActions = <<>>,
                   !.ret = {L[i].channelId : i \in DOMAIN L}]

-----------------------------------------------------------------------------
(* ActionRecorder: note and sample operations *)

\* recordMidiAction as it would be if only the note-on were recorded
recordMidiAction_noOff(st, channelId, note, velocity, f1, f2, framesInLoop) ==
    rec(st, channelId, f1, makeFrom3Bytes(NOTE_ON, note, velocity))

\* recordMidiAction as it would be if an overflowing end were cut at the
\* loop's end and the start left where it is
recordMidiAction_cutEnd(st, channelId, note, velocity, f1, f2, framesInLoop) ==
    LET g2 == IF f2 = 0 THEN f1 + G_DEFAULT_ACTION_SIZE ELSE f2
        h2 == IF g2 > framesInLoop THEN framesInLoop ELSE g2
    IN  rec2(st, channelId, f1, h2,
             makeFrom3Bytes(NOTE_ON, note, velocity),
             makeFrom3Bytes(NOTE_OFF, note, velocity))

recordMidiAction(st, channelId, note, velocity, f1, f2, framesInLoop) ==
    LET g2       == IF f2 = 0 THEN f1 + G_DEFAULT_ACTION_SIZE ELSE f2
        overflow == g2 - framesInLoop
        h2       == IF overflow > 0 THEN g2 - overflow ELSE g2
        h1       == IF overflow > 0 THEN f1 - overflow ELSE f1
    IN  rec2(st, channelId, h1, h2,
             makeFrom3Bytes(NOTE_ON, note, velocity),
             makeFrom3Bytes(NOTE_OFF, note, velocity))

recordSampleAction(st, channelId, type, f1, f2) ==
    IF isSinglePressMode(st, channelId)
        THEN rec2(st, channelId, f1, IF f2 = 0 THEN f1 + G_DEFAULT_ACTION_SIZE ELSE f2,
                  makeFrom3Bytes(NOTE_ON, 0, 0), makeFrom3Bytes(NOTE_OFF, 0, 0))
        ELSE rec(st, channelId, f1, makeFrom3Bytes(type, 0, 0))

\* a.next is the stored action a.nextId names, a null pointer when there is none
deleteMidiAction(st, channelId, a) ==
    IF exists(st.actions, a.nextId)
        THEN deleteAction2(st, channelId, a.id, a.nextId)
        ELSE deleteAction(st, channelId, a.id)

deleteSampleAction(st, channelId, a) ==
    IF exists(st.actions, a.nextId)
        THEN deleteAction2(st, channelId, a.id, a.nextId)
        ELSE deleteAction(st, channelId, a.id)

\* a.next->id on a null a.next stops the program
updateMidiAction(st, channelId, a, note, velocity, f1, f2, framesInLoop) ==
    IF ~exists(st.actions, a.nextId) THEN raise(st, "null")
    ELSE recordMidiAction(deleteAction2(st, channelId, a.id, a.nextId),
                          channelId, note, velocity, f1, f2, framesInLoop)

updateSampleAction(st, channelId, a, type, f1, f2) ==
    IF isSinglePressMode(st, channelId)
        THEN IF ~exists(st.actions, a.nextId) THEN raise(st, "null")
             ELSE recordSampleAction(deleteAction2(st, channelId, a.id, a.nextId),
                                     channelId, type, f1, f2)
        ELSE recordSampleAction(deleteAction(st, channelId, a.id), channelId, type, f1, f2)

updateVelocity(st, a, value) ==
    updateEvent(st, a.id, makeFrom3Bytes(a.status, a.note, value))

-----------------------------------------------------------------------------
(* ActionRecorder: reset *)

\* reset as it would be if the live buffer were kept
reset_keepLive(st) ==
    [st EXCEPT !.nextActionId = 0, !.actions = {}]

\* m_liveActions.clear(); actionFactory::reset(); m_actions.clearAll()
reset(st) ==
    [st EXCEPT !.liveActions = <<>>, !.nextActionId = 0, !.actions = {}]

-----------------------------------------------------------------------------
(* ActionRecorder: tempo and sample rate changes *)

\* static_cast<Frame>(x) of the float x = n / d: the fraction is dropped
truncate(n, d) == IF n >= 0 THEN n \div d ELSE -((-n) \div d)

\* floorf(x) of the float x = n / d
floorf(n, d) == n \div d

\* the frame the lambda of updateBpm gives for the frame old; ratio is the
\* float oldBpm / newBpm, held as <<numerator, denominator>>
updateBpm_frame(old, ratio, quantizerStep) ==
    LET frame == truncate(old * ratio[1], ratio[2])
        delta == quantizerStep % frame
    IN  IF frame > 0 /\ delta > 0 /\ delta =< 6 THEN frame + delta ELSE frame

\* updateBpm as it would be without the return on ratio == 1.0f
updateBpm_noReturn(st, ratio, quantizerStep) ==
    [st EXCEPT !.actions = actions_updateKeyFrames(@,
                   [old \in actions_keyFrames(st.actions) |->
                       updateBpm_frame(old, ratio, quantizerStep)])]

updateBpm(st, ratio, quantizerStep) ==
    IF ratio[1] = ratio[2] THEN st
    ELSE [st EXCEPT !.actions = actions_updateKeyFrames(@,
                        [old \in actions_keyFrames(st.actions) |->
                            updateBpm_frame(old, ratio, quantizerStep)])]

updateSamplerate(st, systemRate, patchRate) ==
    IF systemRate = patchRate THEN st
    ELSE [st EXCEPT !.actions = actions_updateKeyFrames(@,
                        [old \in actions_keyFrames(st.actions) |->
                            floorf(old * systemRate, patchRate)])]

-----------------------------------------------------------------------------
(* ActionRecorder: cloneActions *)

\* The source channel's actions, in the order forEachAction visits them
cloneSource(st, channelId) ==
    forEachOrder(actions_getActionsOnChannel(st.actions, channelId))

\* std::unordered_map<ID, ID> map after the first pass: the k-th action visited
\* gets the k-th new id
cloneMap(st, channelId) ==
    LET src == cloneSource(st, channelId)
    IN  [id \in {src[k].id : k \in DOMAIN src} |->
            st.nextActionId + (CHOOSE k \in DOMAIN src : src[k].id = id)]

\* The source as it would be committed with the second pass left out
cloneActions_noRemap(st, channelId, newChannelId) ==
    LET src    == cloneSource(st, channelId)
        map    == cloneMap(st, channelId)
        clones == {[src[k] EXCEPT !.id = map[src[k].id], !.channelId = newChannelId]
                      : k \in DOMAIN src}
        s1     == [st EXCEPT !.nextActionId = @ + Len(src),
                             !.actions = actions_recBatch(@, clones)]
    IN  [swap(setHasActions(s1, newChannelId, TRUE), "HARD") EXCEPT !.ret = src # <<>>]

\* The clone as it would be with a link the map does not hold left as it is
cloneActions_skipMissing(st, channelId, newChannelId) ==
    LET src    == cloneSource(st, channelId)
        map    == cloneMap(st, channelId)
        to(id) == IF id \in DOMAIN map THEN map[id] ELSE id
        clones == {[src[k] EXCEPT !.id = map[src[k].id], !.channelId = newChannelId,
                                  !.prevId = to(@), !.nextId = to(@)] : k \in DOMAIN src}
        s1     == [st EXCEPT !.nextActionId = @ + Len(src),
                             !.actions = actions_recBatch(@, clones)]
    IN  [swap(setHasActions(s1, newChannelId, TRUE), "HARD") EXCEPT !.ret = src # <<>>]

\* bool ActionRecorder::cloneActions(ID channelId, ID newChannelId); map.at()
\* throws std::out_of_range on an id the map does not hold
cloneActions(st, channelId, newChannelId) ==
    LET src     == cloneSource(st, channelId)
        map     == cloneMap(st, channelId)
        missing == \E k \in DOMAIN src :
                      \/ src[k].prevId # 0 /\ src[k].prevId \notin DOMAIN map
                      \/ src[k].nextId # 0 /\ src[k].nextId \notin DOMAIN map
        to(id)  == IF id # 0 THEN map[id] ELSE id
        clones  == {[src[k] EXCEPT !.id = map[src[k].id], !.channelId = newChannelId,
                                   !.prevId = to(@), !.nextId = to(@)] : k \in DOMAIN src}
        s1      == [st EXCEPT !.nextActionId = @ + Len(src)]
        s2      == [s1 EXCEPT !.actions = actions_recBatch(@, clones)]
    IN  IF missing THEN raise(s1, "out_of_range")
        ELSE [swap(setHasActions(s2, newChannelId, TRUE), "HARD") EXCEPT !.ret = src # <<>>]

-----------------------------------------------------------------------------
(* The layout and the audio thread at start *)

InitLayout ==
    [hasActions  |-> [c \in Channels |-> FALSE],
     mode        |-> [c \in Channels |-> SINGLE_BASIC],
     mixerActive |-> FALSE,
     seqRunning  |-> FALSE,
     bpm         |-> G_DEFAULT_BPM,
     isRecordingActions |-> FALSE,
     isRecordingInput   |-> FALSE,
     locked      |-> FALSE]

\* The audio thread before its first callback. pc: where it is in
\* audioCallback; rt: the layout it holds (layoutLock); acquired: how often
\* this callback called get_RT; frame: the next frame of the block to advance;
\* events: per frame of the block, the actions it was handed; swapped: a swap
\* completed since it took rt; out: the state of the output buffer; steps:
\* what the latest registered callback did so far, in order.
AudioIdle == [pc |-> "idle", rt |-> Snapshot({}, InitLayout), acquired |-> 0,
              frame |-> 0, events |-> {}, swapped |-> FALSE, out |-> "dirty",
              steps |-> <<>>]

-----------------------------------------------------------------------------
(* Engine: entry points of the three threads *)

\* Engine::init() on the main thread, ok: registerThread(Thread::MAIN)
\* succeeded, ready: the audio device opened. m_model.reset(), loadConfig()
\* with its swap, then m_mixer.enable() and updateMixerModel() with its swap.
engineInit(st, ok, ready) ==
    IF ~ok THEN st
    ELSE swap([st EXCEPT !.layout = [InitLayout EXCEPT !.mixerActive = ready]], "NONE")

\* m_kernelMidi.onMidiReceived on the MIDI thread: a note event dispatched
\* while actions are recorded ends in liveRec
onMidiReceived(st, ok, channelId, e, globalFrame) ==
    IF ~ok THEN st ELSE liveRec(st, channelId, e, globalFrame)

\* The callback as it would be with the output buffer cleared before the
\* registration is looked at
audioCallback_clearFirst(au, pub, ok, ready) ==
    LET cleared == [au EXCEPT !.out = "cleared", !.steps = <<"out.clear">>]
        locked  == [cleared EXCEPT !.rt = pub, !.acquired = 1, !.frame = 0,
                                   !.events = {}, !.swapped = FALSE,
                                   !.steps = Append(@, "get_RT")]
    IN  IF ~ok \/ ~ready THEN cleared
        ELSE IF ~locked.rt.layout.mixerActive THEN locked
        ELSE IF locked.rt.layout.seqRunning THEN [locked EXCEPT !.pc = "advance"]
        ELSE [locked EXCEPT !.pc = "render"]

\* Engine::audioCallback up to the point where the sequencer is looked at.
\* au: the audio thread, pub: the current snapshot (what get_RT returns),
\* ok: registerThread(Thread::AUDIO) succeeded, ready: kernelInfo.ready
audioCallback(au, pub, ok, ready) ==
    LET cleared == [au EXCEPT !.out = "cleared", !.steps = <<"out.clear">>]
        locked  == [cleared EXCEPT !.rt = pub, !.acquired = 1, !.frame = 0,
                                   !.events = {}, !.swapped = FALSE,
                                   !.steps = Append(@, "get_RT")]
    IN  IF ~ok THEN au
        ELSE IF ~ready THEN cleared
        ELSE IF ~locked.rt.layout.mixerActive THEN locked
        ELSE IF locked.rt.layout.seqRunning THEN [locked EXCEPT !.pc = "advance"]
        ELSE [locked EXCEPT !.pc = "render"]

\* The sequencer's part of the callback as it would be if the channels
\* were advanced whether or not the layout is locked
sequencerAdvance_ignoreLock(au, S) ==
    LET ev == [au EXCEPT !.events = @ \cup {<<au.frame, actions_getActionsOnFrame(S, au.frame)>>},
                         !.frame = @ + 1]
    IN  IF ev.frame = BufferSize
            THEN [ev EXCEPT !.pc = "render",
                            !.steps = @ \o <<"sequencer.advance", "sequencer.render",
                                              "advanceChannels">>]
            ELSE ev

\* One frame of m_sequencer.advance(layout_RT.sequencer, bufferSize,
\* sampleRate, m_actionRecorder): the actions on the frame come from
\* m_actionRecorder.getActionsOnFrame, that is from the store S itself
sequencerAdvance(au, S) ==
    LET ev == [au EXCEPT !.events = @ \cup {<<au.frame, actions_getActionsOnFrame(S, au.frame)>>},
                         !.frame = @ + 1]
        seq == <<"sequencer.advance", "sequencer.render">>
        chn == IF ~au.rt.layout.locked THEN <<"advanceChannels">> ELSE <<>>
    IN  IF ev.frame = BufferSize
            THEN [ev EXCEPT !.pc = "render", !.steps = @ \o seq \o chn]
            ELSE ev

\* m_mixer.render(out, in, layout_RT) and the return: layoutLock goes out of scope
mixerRender(au) ==
    [au EXCEPT !.pc = "idle", !.out = "rendered", !.steps = Append(@, "mixer.render")]

-----------------------------------------------------------------------------
(* Initial state and the shape of a handler step *)

Init ==
    /\ actions = {}
    /\ layout = InitLayout
    /\ published = Snapshot({}, InitLayout)
    /\ swapType = "-"
    /\ nextActionId = 0
    /\ liveActions = <<>>
    /\ fault = "none"
    /\ lastOp = [name |-> "-", args |-> <<>>, ret |-> "-", thread |-> "-"]
    /\ audio = AudioIdle
    /\ threads = [entry |-> "-", ok |-> TRUE, seq |-> 0, inited |-> FALSE]
    /\ events = <<>>

\* The thread a recorder operation runs on: live recording comes from the
\* MIDI input callback, editing from the UI
ThreadOf(op) == IF op = "liveRec" THEN "MIDI" ELSE "MAIN"

\* A handler ran on the given thread and took the state to st
Ran(st, op, args, thread) ==
    /\ fault = "none"
    /\ actions' = st.actions
    /\ layout' = st.layout
    /\ published' = st.published
    /\ swapType' = st.swapType
    /\ nextActionId' = st.nextActionId
    /\ liveActions' = st.liveActions
    /\ fault' = st.fault
    /\ lastOp' = [name |-> op, args |-> args, ret |-> st.ret, thread |-> thread]
    /\ audio' = IF st.swapType # "-" /\ audio.pc # "idle"
                  THEN [audio EXCEPT !.swapped = TRUE] ELSE audio

\* A recorder handler ran on a writer thread and took the state to st
Commit(st, op, args, maxId) ==
    /\ st.nextActionId =< maxId
    /\ Ran(st, op, args, ThreadOf(op))
    /\ UNCHANGED events

-----------------------------------------------------------------------------
(* Envelope editing *)

Frames == 0 .. LastFrame

\* channels whose envelope is edited
EnvChannels == {1}

EnvActions(S, channelId) == {a \in S : a.channelId = channelId /\ a.status = CHANNEL_CC}

\* The actions take the sets their inputs are drawn from and the id bound of
\* the specification that uses them.
RecordEnvelopeAction(C, F, maxId) ==
    \E c \in C, f \in F, v \in Values :
        /\ Commit(recordEnvelopeAction(Cur, c, f, v, LastFrame),
                  "recordEnvelopeAction", <<c, f, v>>, maxId)
        /\ UNCHANGED threads

DeleteEnvelopeAction(C, maxId) ==
    \E c \in C : \E a \in EnvActions(actions, c) :
        /\ Commit(deleteEnvelopeAction(Cur, c, a), "deleteEnvelopeAction",
                  <<c, a.id>>, maxId)
        /\ UNCHANGED threads

UpdateEnvelopeAction(C, F, maxId) ==
    \E c \in C, f \in F, v \in Values : \E a \in EnvActions(actions, c) :
        /\ Commit(updateEnvelopeAction(Cur, c, a, f, v, LastFrame),
                  "updateEnvelopeAction", <<c, a.id, f, v>>, maxId)
        /\ UNCHANGED threads

NextEnvelope ==
    \/ RecordEnvelopeAction(EnvChannels, Frames, MaxEnvActionId)
    \/ DeleteEnvelopeAction(EnvChannels, MaxEnvActionId)
    \/ UpdateEnvelopeAction(EnvChannels, Frames, MaxEnvActionId)

SpecEnvelope == Init /\ [][NextEnvelope]_vars

-----------------------------------------------------------------------------
(* Live recording of notes from the MIDI input *)

\* Captured events are time-ordered: each lands one frame after the last one
LiveFrame == IF liveActions = <<>> THEN 0 ELSE liveActions[Len(liveActions)].frame + 1

LiveRec(C, N, maxId) ==
    \E c \in C, k \in {NOTE_ON, NOTE_OFF}, n \in N :
        /\ Commit(liveRec(Cur, c, makeFrom3Bytes(k, n, G_MAX_VELOCITY), LiveFrame),
                  "liveRec", <<c, k, n>>, maxId)
        /\ UNCHANGED threads

Consolidate(maxId) ==
    /\ Commit(consolidate(Cur), "consolidate", <<liveActions>>, maxId)
    /\ UNCHANGED threads

NextLive ==
    \/ LiveRec(Channels, Notes, MaxLive)
    \/ Consolidate(MaxLive)

SpecLive == Init /\ [][NextLive]_vars

-----------------------------------------------------------------------------
(* Editing a sample channel and cloning it *)

FramesInLoop == LastFrame + 1

NoteActions(S, channelId) == {a \in S : a.channelId = channelId /\ a.status # CHANNEL_CC}

RecordMidiAction(C, N, F1, F2, maxId) ==
    \E c \in C, n \in N, f1 \in F1, f2 \in F2 :
        /\ f2 = 0 \/ f1 < f2
        /\ Commit(recordMidiAction(Cur, c, n, G_MAX_VELOCITY, f1, f2, FramesInLoop),
                  "recordMidiAction", <<c, n, f1, f2>>, maxId)
        /\ UNCHANGED threads

RecordSampleAction(C, T, F1, F2, maxId) ==
    \E c \in C, t \in T, f1 \in F1, f2 \in F2 :
        /\ Commit(recordSampleAction(Cur, c, t, f1, f2),
                  "recordSampleAction", <<c, t, f1, f2>>, maxId)
        /\ UNCHANGED threads

UpdateSampleAction(C, T, F1, F2, maxId) ==
    \E c \in C, t \in T, f1 \in F1, f2 \in F2 : \E a \in NoteActions(actions, c) :
        /\ Commit(updateSampleAction(Cur, c, a, t, f1, f2),
                  "updateSampleAction", <<c, a.id, t, f1, f2>>, maxId)
        /\ UNCHANGED threads

\* c::channel::setSamplePlayerMode: the channel's playback mode changes
SetSamplePlayerMode(C, maxId) ==
    \E c \in C, m \in {SINGLE_PRESS, SINGLE_BASIC} :
        /\ layout.mode[c] # m
        /\ Commit([Cur EXCEPT !.layout.mode[c] = m], "setSamplePlayerMode", <<c, m>>, maxId)
        /\ UNCHANGED threads

\* cloneActions is called for a channel that was just created from channel c
CloneActions(C, maxId) ==
    \E c \in C, n \in Channels :
        /\ n # c
        /\ actions_getActionsOnChannel(actions, n) = {}
        /\ Commit(cloneActions(Cur, c, n), "cloneActions",
                  <<c, n, actions, layout.hasActions[n]>>, maxId)
        /\ UNCHANGED threads

NextClone ==
    \/ RecordSampleAction({1}, {NOTE_ON}, {1}, {0}, MaxCloneSrcId)
    \/ UpdateSampleAction({1}, {NOTE_ON}, {2}, {0}, MaxCloneSrcId)
    \/ SetSamplePlayerMode({1}, MaxCloneSrcId)
    \/ RecordEnvelopeAction({1}, {1, 2}, MaxCloneSrcId)
    \/ CloneActions({1}, 2 * MaxCloneSrcId)

SpecClone == Init /\ [][NextClone]_vars

-----------------------------------------------------------------------------
(* Tempo and sample rate changes on recorded actions *)

\* oldBpm / newBpm of a tempo change: the tempo doubled, unchanged, raised by
\* a third, halved
Ratios == {<<1, 2>>, <<1, 1>>, <<3, 4>>, <<2, 1>>}
QuantizerSteps == {4, 16}
SampleRates == {22050, 44100}

\* frames at which sample actions are recorded before a change
RescaleFrames == {1, 3, 10}

Rescalable == \A a \in actions : a.frame =< MaxRescaleFrame

\* m_sequencer.onBpmChange
UpdateBpm(R, Q, maxId) ==
    \E ratio \in R, quantizerStep \in Q :
        /\ Rescalable
        /\ Commit(updateBpm(Cur, ratio, quantizerStep), "updateBpm",
                  <<ratio, quantizerStep>>, maxId)
        /\ UNCHANGED threads

UpdateSamplerate(R, maxId) ==
    \E systemRate \in R, patchRate \in R :
        /\ Rescalable
        /\ Commit(updateSamplerate(Cur, systemRate, patchRate), "updateSamplerate",
                  <<systemRate, patchRate>>, maxId)
        /\ UNCHANGED threads

NextRescale ==
    \/ RecordSampleAction({2}, {NOTE_ON}, RescaleFrames, {0}, MaxRescaleActionId)
    \/ RecordEnvelopeAction({1}, {1, 2}, MaxRescaleActionId)
    \/ UpdateBpm(Ratios, QuantizerSteps, MaxRescaleActionId)
    \/ UpdateSamplerate(SampleRates, MaxRescaleActionId)

SpecRescale == Init /\ [][NextRescale]_vars

-----------------------------------------------------------------------------
(* Recording notes, samples and envelope points in the editors *)

\* Start frames lie inside the loop; an end frame is 0 (none given) or a
\* frame up to the loop's length
NextRecord ==
    \/ RecordMidiAction({2}, {60}, {0, LastFrame}, {0, FramesInLoop}, MaxRecordActionId)
    \/ RecordSampleAction({1, 2}, {NOTE_KILL}, {0, LastFrame}, {0, LastFrame}, MaxRecordActionId)
    \/ SetSamplePlayerMode({2}, MaxRecordActionId)
    \/ RecordEnvelopeAction({1}, Frames, MaxRecordActionId)
    \/ DeleteEnvelopeAction({1}, MaxRecordActionId)

SpecRecord == Init /\ [][NextRecord]_vars

-----------------------------------------------------------------------------
(* The audio callback running against the writer threads *)

\* An entry point returned at once, leaving the state at st
Returned(st) ==
    /\ fault = "none"
    /\ actions' = st.actions /\ layout' = st.layout /\ published' = st.published
    /\ nextActionId' = st.nextActionId /\ liveActions' = st.liveActions
    /\ fault' = st.fault
    /\ UNCHANGED <<swapType, lastOp, audio, events>>

\* An entry point was called; ok tells whether it could register its thread
Entered(entry, ok, inited) ==
    threads' = [entry |-> entry, ok |-> ok, seq |-> 1 - threads.seq, inited |-> inited]

EngineInit ==
    \E ok \in BOOLEAN, ready \in BOOLEAN :
        /\ ~threads.inited
        /\ IF ok THEN Commit(engineInit(Cur, ok, ready), "init", <<>>, MaxAudioActionId)
                 ELSE Returned(engineInit(Cur, ok, ready))
        /\ Entered("init", ok, ok /\ ready)

MidiReceived(C, N, maxId) ==
    \E ok \in BOOLEAN, c \in C, k \in {NOTE_ON, NOTE_OFF}, n \in N :
        /\ threads.inited
        /\ LET st == onMidiReceived(Cur, ok, c, makeFrom3Bytes(k, n, G_MAX_VELOCITY), LiveFrame)
           IN  IF ok THEN Commit(st, "liveRec", <<c, k, n>>, maxId) ELSE Returned(st)
        /\ Entered("onMidiReceived", ok, TRUE)

AudioCallback ==
    \E ok \in BOOLEAN, ready \in BOOLEAN :
        /\ threads.inited
        /\ fault = "none"
        /\ audio.pc = "idle"
        /\ audio' = audioCallback(audio, published, ok, ready)
        /\ Entered("audioCallback", ok, TRUE)
        /\ UNCHANGED <<actions, layout, published, swapType, nextActionId,
                       liveActions, fault, lastOp, events>>

AudioAdvance ==
    /\ fault = "none"
    /\ audio.pc = "advance"
    /\ audio' = sequencerAdvance(audio, actions)
    /\ UNCHANGED <<actions, layout, published, swapType, nextActionId,
                   liveActions, fault, lastOp, threads, events>>

AudioRender ==
    /\ fault = "none"
    /\ audio.pc = "render"
    /\ audio' = mixerRender(audio)
    /\ UNCHANGED <<actions, layout, published, swapType, nextActionId,
                   liveActions, fault, lastOp, threads, events>>

\* m_mainApi.startSequencer() / stopSequencer(): the running flag of the
\* layout's sequencer changes and the layout is swapped
SequencerStartStop(maxId) ==
    /\ threads.inited
    /\ Commit(swap([Cur EXCEPT !.layout.seqRunning = ~@], "NONE"),
              "startStopSequencer", <<>>, maxId)
    /\ UNCHANGED threads

DeleteSampleAction(C, maxId) ==
    \E c \in C : \E a \in NoteActions(actions, c) :
        /\ Commit(deleteSampleAction(Cur, c, a), "deleteSampleAction", <<c, a.id>>, maxId)
        /\ UNCHANGED threads

ClearAllActions(maxId) ==
    /\ Commit(clearAllActions(Cur), "clearAllActions", <<>>, maxId)
    /\ UNCHANGED threads

BlockFrames == 0 .. (BufferSize - 1)

NextAudio ==
    \/ EngineInit
    \/ MidiReceived({1}, {60}, MaxAudioActionId)
    \/ AudioCallback
    \/ AudioAdvance
    \/ AudioRender
    \/ SequencerStartStop(MaxAudioActionId)
    \/ (threads.inited /\ RecordSampleAction({1}, {NOTE_ON}, BlockFrames, {0}, MaxAudioActionId))
    \/ (threads.inited /\ DeleteSampleAction({1}, MaxAudioActionId))
    \/ (threads.inited /\ ClearAllActions(MaxAudioActionId))

SpecAudio == Init /\ [][NextAudio]_vars

-----------------------------------------------------------------------------
(* The steps of one audio callback *)

\* Engine::suspend() and Engine::resume(): m_mixer.disable() / enable()
suspend(st) == swap([st EXCEPT !.layout.mixerActive = FALSE], "NONE")

resume(st) == swap([st EXCEPT !.layout.mixerActive = TRUE], "NONE")

\* A writer locks the layout while it alters channel data, and unlocks it
setLocked(st, v) == swap([st EXCEPT !.layout.locked = v], "NONE")

Suspend ==
    /\ threads.inited
    /\ layout.mixerActive
    /\ Commit(suspend(Cur), "suspend", <<>>, MaxAudioActionId)
    /\ UNCHANGED threads

Resume ==
    /\ threads.inited
    /\ ~layout.mixerActive
    /\ Commit(resume(Cur), "resume", <<>>, MaxAudioActionId)
    /\ UNCHANGED threads

SetLocked ==
    /\ threads.inited
    /\ Commit(setLocked(Cur, ~layout.locked), "setLocked", <<>>, MaxAudioActionId)
    /\ UNCHANGED threads

NextCallback ==
    \/ EngineInit
    \/ AudioCallback
    \/ AudioAdvance
    \/ AudioRender
    \/ SequencerStartStop(MaxAudioActionId)
    \/ Suspend
    \/ Resume
    \/ SetLocked

SpecCallback == Init /\ [][NextCallback]_vars

-----------------------------------------------------------------------------
(* Ids over recording, live recording, cloning, deleting and reset *)

Reset(maxId) ==
    /\ Commit(reset(Cur), "reset", <<>>, maxId)
    /\ UNCHANGED threads

NextIds ==
    \/ RecordSampleAction({1}, {NOTE_ON}, {0}, {0}, MaxResetActionId)
    \/ LiveRec({1}, {60}, MaxResetActionId)
    \/ Consolidate(MaxResetActionId)
    \/ CloneActions({1}, MaxResetActionId + 1)
    \/ DeleteSampleAction({1}, MaxResetActionId)
    \/ ClearAllActions(MaxResetActionId)
    \/ Reset(MaxResetActionId)

SpecIds == Init /\ [][NextIds]_vars

-----------------------------------------------------------------------------
(* Transport: recordings, the sequencer and the event dispatcher *)

\* m_recorder.startActionRec / startInputRec and their stops: the recording
\* flag of the layout's mixer changes and the layout is swapped
startActionRec(st) == swap([st EXCEPT !.layout.isRecordingActions = TRUE], "NONE")

startInputRec(st) == swap([st EXCEPT !.layout.isRecordingInput = TRUE], "NONE")

stopActionRec(st) == swap([st EXCEPT !.layout.isRecordingActions = FALSE], "NONE")

stopInputRec(st) == swap([st EXCEPT !.layout.isRecordingInput = FALSE], "NONE")

\* m_recorder.startInputRecOnCallback, run when the input signal passed the
\* threshold
startInputRecOnCallback(st) == startInputRec(st)

\* m_sequencer.onAboutStop
onAboutStop(st) ==
    IF st.layout.isRecordingActions THEN stopActionRec(st)
    ELSE IF st.layout.isRecordingInput THEN stopInputRec(st)
    ELSE st

\* Sequencer::rawStop: onAboutStop is fired, then the sequencer stops
rawStop(st) ==
    IF ~st.layout.seqRunning THEN st
    ELSE swap([onAboutStop(st) EXCEPT !.layout.seqRunning = FALSE], "NONE")

rawStart(st) ==
    IF st.layout.seqRunning THEN st
    ELSE swap([st EXCEPT !.layout.seqRunning = TRUE], "NONE")

jack_start(st) == rawStart(st)

jack_stop(st) == rawStop(st)

\* the position of the sequencer is not part of the layout of the model
jack_rewind(st) == swap(st, "NONE")

\* Sequencer::jack_setBpm: the bpm changes and m_sequencer.onBpmChange
\* rescales the recorded actions by oldVal / newVal
jack_setBpm(st, bpm, quantizerStep) ==
    IF bpm = st.layout.bpm THEN st
    ELSE swap(updateBpm([st EXCEPT !.layout.bpm = bpm],
                        <<st.layout.bpm, bpm>>, quantizerStep), "NONE")

\* An event: the call the dispatcher is to make, and its argument
Event(name, arg) == [name |-> name, arg |-> arg]

\* EventDispatcher::pumpEvent on the queue Q
pumpEvent(Q, e) == Append(Q, e)

\* The engine as a realtime callback sees it: the model and the event queue
Engine == [st |-> Cur, events |-> events]

\* onJackStart as it would be if it called the sequencer directly
onJackStart_direct(en) == [en EXCEPT !.st = jack_start(@)]

\* The callbacks fired by the realtime thread
onJackRewind(en) == [en EXCEPT !.events = pumpEvent(@, Event("jack_rewind", 0))]

onJackChangeBpm(en, bpm) == [en EXCEPT !.events = pumpEvent(@, Event("jack_setBpm", bpm))]

onJackStart(en) == [en EXCEPT !.events = pumpEvent(@, Event("jack_start", 0))]

onJackStop(en) == [en EXCEPT !.events = pumpEvent(@, Event("jack_stop", 0))]

onSignalTresholdReached(en) ==
    [en EXCEPT !.events = pumpEvent(@, Event("startInputRecOnCallback", 0))]

onEndOfRecording(en) ==
    IF en.st.layout.isRecordingInput
        THEN [en EXCEPT !.events = pumpEvent(@, Event("stopInputRec", 0))]
        ELSE en

\* The dispatcher runs the event e
runEvent(st, e, quantizerStep) ==
    CASE e.name = "jack_rewind" -> jack_rewind(st)
      [] e.name = "jack_setBpm" -> jack_setBpm(st, e.arg, quantizerStep)
      [] e.name = "jack_start" -> jack_start(st)
      [] e.name = "jack_stop" -> jack_stop(st)
      [] e.name = "startInputRecOnCallback" -> startInputRecOnCallback(st)
      [] e.name = "stopInputRec" -> stopInputRec(st)

\* bpm values JACK asks for
Bpms == {60, G_DEFAULT_BPM}

\* A realtime callback ran and left the engine at en
Fired(en, op, args) ==
    /\ Len(events) < MaxQueue
    /\ Ran(en.st, op, args, "AUDIO")
    /\ events' = en.events

OnJackRewind ==
    /\ Fired(onJackRewind(Engine), "onJackRewind", <<>>)
    /\ UNCHANGED threads

OnJackChangeBpm ==
    \E bpm \in Bpms :
        /\ Fired(onJackChangeBpm(Engine, bpm), "onJackChangeBpm", <<bpm>>)
        /\ UNCHANGED threads

OnJackStart ==
    /\ Fired(onJackStart(Engine), "onJackStart", <<>>)
    /\ UNCHANGED threads

OnJackStop ==
    /\ Fired(onJackStop(Engine), "onJackStop", <<>>)
    /\ UNCHANGED threads

OnSignalTresholdReached ==
    /\ Fired(onSignalTresholdReached(Engine), "onSignalTresholdReached", <<>>)
    /\ UNCHANGED threads

OnEndOfRecording ==
    /\ Fired(onEndOfRecording(Engine), "onEndOfRecording", <<>>)
    /\ UNCHANGED threads

\* The dispatcher's thread takes the oldest event and runs it
ProcessEvent ==
    \E quantizerStep \in QuantizerSteps :
        /\ events # <<>>
        /\ Ran(runEvent(Cur, Head(events), quantizerStep), Head(events).name,
               <<Head(events).arg>>, "EVENTS")
        /\ events' = Tail(events)
        /\ UNCHANGED threads

\* The UI starts a recording, starts or stops the sequencer
StartActionRec ==
    /\ ~layout.isRecordingActions
    /\ Ran(startActionRec(Cur), "startActionRec", <<>>, "MAIN")
    /\ UNCHANGED <<threads, events>>

StartInputRec ==
    /\ ~layout.isRecordingInput
    /\ Ran(startInputRec(Cur), "startInputRec", <<>>, "MAIN")
    /\ UNCHANGED <<threads, events>>

StartSequencer ==
    /\ ~layout.seqRunning
    /\ Ran(rawStart(Cur), "startSequencer", <<>>, "MAIN")
    /\ UNCHANGED <<threads, events>>

StopSequencer ==
    /\ layout.seqRunning
    /\ Ran(rawStop(Cur), "stopSequencer", <<>>, "MAIN")
    /\ UNCHANGED <<threads, events>>

NextTransport ==
    \/ OnJackRewind
    \/ OnJackChangeBpm
    \/ OnJackStart
    \/ OnJackStop
    \/ OnSignalTresholdReached
    \/ OnEndOfRecording
    \/ ProcessEvent
    \/ StartActionRec
    \/ StartInputRec
    \/ StartSequencer
    \/ StopSequencer

SpecTransport == Init /\ [][NextTransport]_vars

-----------------------------------------------------------------------------
(* Properties of the snapshots and of the threads *)

\* What the store S holds on each frame of a block
OnFrames(S) == {<<f, actions_getActionsOnFrame(S, f)>> : f \in BlockFrames}

\* C1: a snapshot is isolated from the writers. Once the handler of a mutation
\* has issued its swap, the current snapshot holds all of that mutation's
\* effects, on the store and on the layout alike; and the snapshot the audio
\* thread holds is the one that was current when it took it, as long as no
\* swap has completed since.
C1_SnapshotIsolation ==
    /\ swapType # "-" => published = Snapshot(actions, layout)
    /\ (audio.pc # "idle" /\ ~audio.swapped) => audio.rt = published

\* C2: the audio callback takes the layout once per invocation, and a swap
\* that completes while the block is processed shows nothing to that block:
\* what the block was handed is still what the snapshot it took holds.
C2_SwapVisibleNextBlock ==
    /\ audio.pc # "idle" => audio.acquired = 1
    /\ audio.swapped => audio.events \subseteq OnFrames(audio.rt.actions)

\* C3: every action the audio thread was handed for a frame is the list the
\* snapshot it acquired holds for that frame, and every operation on the
\* recorder ran on the main or on the MIDI thread.
C3_AudioReadsSnapshotOnly ==
    /\ \A ev \in audio.events : ev[2] = actions_getActionsOnFrame(audio.rt.actions, ev[1])
    /\ lastOp.thread \in {"-", "MAIN", "MIDI"}

\* C4: an entry point that fails to register its thread returns at once: the
\* call changes neither the store, nor the layout, nor the snapshot, nor the
\* live buffer, nor the audio thread and its output buffer.
C4_FailedRegistrationIsNoOp ==
    [][(threads'.seq # threads.seq /\ ~threads'.ok)
        => UNCHANGED <<actions, layout, published, swapType, nextActionId,
                       liveActions, fault, lastOp, audio>>]_vars

\* The audio callback failed to register while there were actions to play
\* and a buffer rendered by an earlier callback
C4_Witness ==
    /\ threads.entry = "audioCallback" /\ ~threads.ok
    /\ actions # {}
    /\ audio.out = "rendered"

-----------------------------------------------------------------------------
(* Properties of the envelope chain *)

next(S, a) == findAction(S, a.nextId)

\* The envelope actions E form one circular chain from frame 0 to the loop's
\* last frame: nextId stays inside E and prevId inverts it, frames strictly
\* increase along nextId except at the single node on the last frame, whose
\* nextId names the single node on frame 0.
IsCircularChain(S, E) ==
    /\ Cardinality({a \in E : a.frame = 0}) = 1
    /\ Cardinality({a \in E : a.frame = LastFrame}) = 1
    /\ \A a \in E :
        /\ next(S, a) \in E
        /\ next(S, a).prevId = a.id
        /\ IF a.frame = LastFrame
             THEN next(S, a).frame = 0
             ELSE next(S, a).frame > a.frame

\* C5: no two envelope actions of one channel share a frame, after any
\* sequence of recordEnvelopeAction calls with frames in [0, last frame]
\* (two-state form: a recordEnvelopeAction call never produces such a pair).
C5_NoVerticalPoints ==
    lastOp.name = "recordEnvelopeAction" =>
        \A c \in Channels : \A a, b \in EnvActions(actions, c) :
            a.id # b.id => a.frame # b.frame

\* C6: after any sequence of envelope operations the envelope actions of a
\* channel are empty or one circular chain through frame 0 and the last frame.
C6_EnvelopeIsCircularChain ==
    \A c \in Channels :
        EnvActions(actions, c) = {} \/ IsCircularChain(actions, EnvActions(actions, c))

-----------------------------------------------------------------------------
(* Properties of consolidate *)

\* The buffer the latest consolidate call found
ConsolidatedBuffer == lastOp.args[1]

\* Positions after i of the note-offs with the note and the channel of B[i]
LaterOffs(B, i) ==
    {j \in (i + 1) .. Len(B) :
        /\ B[j].status = NOTE_OFF
        /\ B[j].note = B[i].note
        /\ B[j].channelId = B[i].channelId}

\* C7: consolidate links each NOTE_ON of the buffer to the first NOTE_OFF at
\* a later buffer position with the same note and channel (to none when there
\* is none), so never to a NOTE_OFF of another note or channel.
C7_NoteOnLinksFirstLaterOff ==
    lastOp.name = "consolidate" =>
        \A i \in DOMAIN ConsolidatedBuffer :
            LET B  == ConsolidatedBuffer
                on == findAction(actions, B[i].id)
            IN  B[i].status = NOTE_ON =>
                  /\ isValid(on)
                  /\ IF LaterOffs(B, i) = {} THEN on.nextId = 0
                     ELSE \E j \in LaterOffs(B, i) :
                            /\ \A k \in LaterOffs(B, i) : j =< k
                            /\ on.nextId = B[j].id
                  /\ on.nextId # 0 =>
                        LET off == findAction(actions, on.nextId)
                        IN  /\ off.status = NOTE_OFF
                            /\ off.note = on.note
                            /\ off.channelId = on.channelId

\* C7 witness: interleaved notes (ON a, ON b, OFF a, OFF b) were consolidated
C7_Witness ==
    /\ lastOp.name = "consolidate"
    /\ Len(ConsolidatedBuffer) = 4
    /\ LET B == ConsolidatedBuffer
       IN  /\ B[1].status = NOTE_ON /\ B[2].status = NOTE_ON
           /\ B[3].status = NOTE_OFF /\ B[4].status = NOTE_OFF
           /\ B[1].note # B[2].note
           /\ B[3].note = B[1].note /\ B[4].note = B[2].note
           /\ B[1].channelId = B[2].channelId
           /\ B[3].channelId = B[1].channelId /\ B[4].channelId = B[1].channelId
           /\ findAction(actions, B[1].id).nextId = B[3].id
           /\ findAction(actions, B[2].id).nextId = B[4].id

\* C8: after consolidate the note links are symmetric: the action named by
\* a.nextId has prevId = a.id, and no NOTE_OFF is the nextId of two NOTE_ONs.
C8_LinksSymmetric ==
    lastOp.name = "consolidate" =>
        /\ \A a \in actions :
              a.nextId # 0 => findAction(actions, a.nextId).prevId = a.id
        /\ \A a, b \in actions :
              (a.nextId # 0 /\ a.nextId = b.nextId) => a.id = b.id

-----------------------------------------------------------------------------
(* Properties of cloneActions *)

CloneSrc == lastOp.args[1]
CloneDst == lastOp.args[2]
\* the store and the target's hasActions flag as the latest cloneActions found them
CloneBefore == lastOp.args[3]
CloneFlagBefore == lastOp.args[4]

Ids(S) == {a.id : a \in S}

SamePayload(a, b) ==
    /\ a.frame = b.frame
    /\ a.status = b.status
    /\ a.note = b.note
    /\ a.velocity = b.velocity

\* g, a set of <<old id, new id>> pairs, carries the links of A onto those of B
LinksAgree(g, A, B) ==
    LET img(id) == IF id = 0 THEN {0} ELSE {p[2] : p \in {q \in g : q[1] = id}}
    IN  \A p \in g :
            /\ img(findAction(A, p[1]).prevId) = {findAction(B, p[2]).prevId}
            /\ img(findAction(A, p[1]).nextId) = {findAction(B, p[2]).nextId}

\* Some one-to-one pairing of the actions todo with unused actions of B that
\* extends g keeps frame and payload and carries the links of A onto B
RECURSIVE ExtendsToIso(_, _, _, _)
ExtendsToIso(todo, g, A, B) ==
    IF todo = {} THEN LinksAgree(g, A, B)
    ELSE LET a == CHOOSE x \in todo : TRUE
         IN  \E b \in B :
                /\ b.id \notin {p[2] : p \in g}
                /\ SamePayload(a, b)
                /\ ExtendsToIso(todo \ {a}, g \cup {<<a.id, b.id>>}, A, B)

Isomorphic(A, B) == Cardinality(A) = Cardinality(B) /\ ExtendsToIso(A, {}, A, B)

\* Some link of the source channel names an id that is no action of the channel
HasForeignLink(S, channelId) ==
    \E a \in actions_getActionsOnChannel(S, channelId) :
        \/ a.prevId # 0 /\ a.prevId \notin Ids(actions_getActionsOnChannel(S, channelId))
        \/ a.nextId # 0 /\ a.nextId \notin Ids(actions_getActionsOnChannel(S, channelId))

\* C9: cloneActions(A, B) on a channel whose links stay inside the channel
\* leaves on B one copy of each action of A (same frame and payload), with
\* ids that no action had before the call and links isomorphic to A's, and
\* changes no action that was in the store.
C9_CloneIsomorphic ==
    (lastOp.name = "cloneActions" /\ ~HasForeignLink(CloneBefore, CloneSrc)) =>
        LET A == actions_getActionsOnChannel(CloneBefore, CloneSrc)
            B == actions_getActionsOnChannel(actions, CloneDst)
        IN  /\ fault = "none"
            /\ Isomorphic(A, B)
            /\ Ids(B) \cap Ids(CloneBefore) = {}
            /\ 0 \notin Ids(B)
            /\ actions = CloneBefore \cup B
            /\ lastOp.ret = (A # {})

\* C9 witness: a channel holding a note pair, an orphaned note-on and a
\* circular envelope chain was cloned
C9_Witness ==
    /\ lastOp.name = "cloneActions"
    /\ fault = "none"
    /\ ~HasForeignLink(CloneBefore, CloneSrc)
    /\ LET A == actions_getActionsOnChannel(CloneBefore, CloneSrc)
       IN  /\ \E a \in A : a.status = NOTE_ON /\ a.nextId = 0
           /\ \E a \in A : a.status = NOTE_ON /\ a.nextId # 0
           /\ IsCircularChain(CloneBefore, EnvActions(CloneBefore, CloneSrc))
           /\ Cardinality(actions_getActionsOnChannel(actions, CloneDst)) = Cardinality(A)

\* C10: a cloneActions call that meets a link to an id outside the source
\* channel fails hard and commits nothing: the store and the target's
\* hasActions flag are as before and no swap was issued.
C10_CloneFailsHard ==
    (lastOp.name = "cloneActions" /\ HasForeignLink(CloneBefore, CloneSrc)) =>
        /\ fault = "out_of_range"
        /\ actions = CloneBefore
        /\ layout.hasActions[CloneDst] = CloneFlagBefore
        /\ swapType = "-"

\* C10 witness: cloneActions ran on a channel with a dangling link and stopped
C10_Witness ==
    /\ lastOp.name = "cloneActions"
    /\ HasForeignLink(CloneBefore, CloneSrc)
    /\ fault = "out_of_range"

-----------------------------------------------------------------------------
(* Properties of the tempo and sample rate changes *)

\* n / d rounded to the nearest integer, halves away from zero (n, d >= 0)
Round(n, d) == (2 * n + d) \div (2 * d)

\* the frame a tempo change by ratio is said to give for the frame f:
\* f' = round(f * ratio), plus quantizerStep mod f' when that lies in (0, 6]
RoundedBpmFrame(f, ratio, quantizerStep) ==
    LET g == Round(f * ratio[1], ratio[2])
    IN  IF g > 0 /\ (quantizerStep % g) \in 1 .. 6 THEN g + (quantizerStep % g) ELSE g

\* the call that made the step was updateBpm(1.0, q) or updateSamplerate(s, s)
IdentityRescale(op) ==
    \/ op.name = "updateBpm" /\ op.args[1][1] = op.args[1][2]
    \/ op.name = "updateSamplerate" /\ op.args[1] = op.args[2]

NoVerticalPoints(S) ==
    \A c \in Channels : \A a, b \in EnvActions(S, c) : a.id # b.id => a.frame # b.frame

\* C11: updateBpm with a ratio other than 1 gives every stored action the
\* frame round(f * ratio), snapped up by quantizerStep mod that frame when the
\* remainder lies in (0, 6], and changes nothing else of the action.
C11_BpmRescaleRounds ==
    [][(lastOp'.name = "updateBpm" /\ ~IdentityRescale(lastOp'))
        => actions' = {[a EXCEPT !.frame = RoundedBpmFrame(a.frame, lastOp'.args[1],
                                                            lastOp'.args[2])] : a \in actions}]_vars

\* C12: updateBpm(1.0, q) and updateSamplerate(s, s) change nothing: every
\* action keeps its frame, id, payload and links, the store keeps its order,
\* and the layout, the snapshot and the id allocator are as before.
C12_IdentityRescaleIsNoOp ==
    [][IdentityRescale(lastOp')
        => /\ actions' = actions
           /\ forEachOrder(actions') = forEachOrder(actions)
           /\ UNCHANGED <<layout, published, nextActionId, liveActions, fault>>]_vars

\* updateBpm(1.0, q) was called on a store with an action whose frame the
\* quantizer rule would have moved
C12_Witness ==
    /\ lastOp.name = "updateBpm" /\ IdentityRescale(lastOp)
    /\ \E a \in actions : a.frame > 0 /\ (lastOp.args[2] % a.frame) \in 1 .. 6

\* C13: a tempo or sample rate change applied to envelopes without two
\* actions of one channel on one frame leaves them without such a pair.
C13_RescaleKeepsNoVerticalPoints ==
    [][(lastOp'.name \in {"updateBpm", "updateSamplerate"} /\ NoVerticalPoints(actions))
        => NoVerticalPoints(actions')]_vars

-----------------------------------------------------------------------------
(* Properties of the recording operations *)

\* the actions a step added, and whether it left the ones there were alone
Added == actions' \ actions
OthersKept == actions \subseteq actions'

\* a1 and a2 are a NOTE_ON at f1 and a NOTE_OFF at f2 on channel c, with the
\* same note and velocity, linked to each other and to nothing else
IsPair(a1, a2, c, note, velocity, f1, f2) ==
    /\ a1.channelId = c /\ a2.channelId = c
    /\ a1.status = NOTE_ON /\ a2.status = NOTE_OFF
    /\ a1.frame = f1 /\ a2.frame = f2
    /\ a1.note = note /\ a2.note = note
    /\ a1.velocity = velocity /\ a2.velocity = velocity
    /\ a1.id # a2.id
    /\ a1.nextId = a2.id /\ a2.prevId = a1.id
    /\ a1.prevId = 0 /\ a2.nextId = 0

\* the step added exactly one such pair
AddedPair(c, note, velocity, f1, f2) ==
    \E a1, a2 \in Added :
        /\ Added = {a1, a2}
        /\ IsPair(a1, a2, c, note, velocity, f1, f2)

\* C14: after recordMidiAction, recordSampleAction and recordEnvelopeAction
\* calls whose start frames lie inside the loop, every stored action's frame
\* lies in [0, framesInLoop).
C14_FramesInsideLoop ==
    \A a \in actions : 0 =< a.frame /\ a.frame < FramesInLoop

\* C15: recordMidiAction with f1 < f2 <= framesInLoop adds exactly a NOTE_ON
\* at f1 and a NOTE_OFF at f2 on the channel, same note and velocity, linked
\* to each other; no other action is added or changed.
C15_RecordNoteAddsLinkedPair ==
    [][(lastOp'.name = "recordMidiAction" /\ lastOp'.args[4] # 0)
        => /\ OthersKept
           /\ AddedPair(lastOp'.args[1], lastOp'.args[2], G_MAX_VELOCITY,
                        lastOp'.args[3], lastOp'.args[4])]_vars

\* a note was recorded from frame 0 to the loop's end next to other actions
C15_Witness ==
    /\ lastOp.name = "recordMidiAction"
    /\ lastOp.args[3] = 0 /\ lastOp.args[4] = FramesInLoop
    /\ Cardinality(actions) > 2
    /\ \E a \in actions : a.id = nextActionId /\ a.status = NOTE_OFF /\ a.frame = FramesInLoop

C17_RecordSampleLikeRecordNote ==
    [][(lastOp'.name = "recordSampleAction")
        => LET c  == lastOp'.args[1]
               t  == lastOp'.args[2]
               f1 == lastOp'.args[3]
               f2 == lastOp'.args[4]
           IN  IF layout.mode[c] = SINGLE_PRESS
                 THEN actions' = recordMidiAction(Cur, c, 0, 0, f1, f2, FramesInLoop).actions
                 ELSE /\ OthersKept
                      /\ \E a \in Added :
                            /\ Added = {a}
                            /\ a.channelId = c /\ a.status = t /\ a.frame = f1
                            /\ a.note = 0 /\ a.velocity = 0
                            /\ a.prevId = 0 /\ a.nextId = 0]_vars

\* C18: recordEnvelopeAction on a channel without envelope actions adds
\* exactly three CC actions: a boundary at frame 0 and one at the last frame
\* with the same baseline value, and the point at the requested frame with the
\* requested value, linked 0 -> point -> last -> 0 and back through prevId.
C18_FirstEnvelopePointAddsTriple ==
    [][(lastOp'.name = "recordEnvelopeAction" /\ EnvActions(actions, lastOp'.args[1]) = {})
        => /\ OthersKept
           /\ \E b0, pt, bl \in Added :
                 /\ Added = {b0, pt, bl}
                 /\ Cardinality(Added) = 3
                 /\ \A a \in Added : a.channelId = lastOp'.args[1] /\ a.status = CHANNEL_CC
                 /\ b0.frame = 0 /\ bl.frame = LastFrame /\ pt.frame = lastOp'.args[2]
                 /\ b0.velocity = bl.velocity /\ b0.velocity = G_MAX_VELOCITY
                 /\ pt.velocity = lastOp'.args[3]
                 /\ b0.nextId = pt.id /\ pt.nextId = bl.id /\ bl.nextId = b0.id
                 /\ b0.prevId = bl.id /\ pt.prevId = b0.id /\ bl.prevId = pt.id]_vars

\* the first point of channel 1 was recorded strictly inside the loop while
\* other actions were stored
C18_Witness ==
    /\ lastOp.name = "recordEnvelopeAction"
    /\ lastOp.args[2] \in 1 .. (LastFrame - 1)
    /\ Cardinality(EnvActions(actions, 1)) = 3
    /\ \E a \in EnvActions(actions, 1) : a.id = nextActionId
    /\ actions # EnvActions(actions, 1)

\* C19: recordEnvelopeAction on a channel with envelope actions moves a frame
\* that is a neighbour's frame one frame away from it; if the moved frame is
\* the frame of the neighbour before or after, nothing is added, no link is
\* rewritten and the hasActions flags stay; otherwise one point is added at
\* that frame.
C19_CollidingPointRejected ==
    [][(lastOp'.name = "recordEnvelopeAction" /\ EnvActions(actions, lastOp'.args[1]) # {}
            /\ fault' = "none")
        => LET c  == lastOp'.args[1]
               f  == lastOp'.args[2]
               a1 == actions_getClosestAction(actions, c, f, CHANNEL_CC)
               a3 == findAction(actions, a1.nextId)
               g  == IF a1.frame = f THEN f + 1 ELSE IF a3.frame = f THEN f - 1 ELSE f
           IN  IF g = a1.frame \/ g = a3.frame
                 THEN UNCHANGED <<actions, layout, published, nextActionId>>
                 ELSE \E a \in Added :
                         /\ Added \cap {b \in actions' : b.id \notin Ids(actions)} = {a}
                         /\ a.frame = g /\ a.velocity = lastOp'.args[3]
                         /\ a.channelId = c /\ a.status = CHANNEL_CC]_vars

\* a point was asked for on a channel with envelope actions and nothing was
\* added: the newest action is a note or sample action
C19_Witness ==
    /\ lastOp.name = "recordEnvelopeAction"
    /\ EnvActions(actions, lastOp.args[1]) # {}
    /\ \E a \in actions : a.id = nextActionId /\ a.status # CHANNEL_CC

\* an envelope action at a wrap point of its chain: prev.frame > frame or
\* next.frame < frame
IsBoundary(S, a) ==
    \/ \E b \in S : b.id = a.prevId /\ b.frame > a.frame
    \/ \E b \in S : b.id = a.nextId /\ b.frame < a.frame

\* C20: deleteEnvelopeAction on a boundary action removes every envelope
\* action of the channel and nothing else; afterwards the channel's
\* hasActions flag says whether the channel still has an action, and the
\* flags of the other channels are as before.
C20_DeleteBoundaryClearsEnvelope ==
    [][(lastOp'.name = "deleteEnvelopeAction"
            /\ \E a \in actions : a.id = lastOp'.args[2] /\ IsBoundary(actions, a))
        => LET c == lastOp'.args[1]
           IN  /\ actions' = actions \ EnvActions(actions, c)
               /\ layout'.hasActions[c] = (actions_getActionsOnChannel(actions', c) # {})
               /\ \A d \in Channels \ {c} : layout'.hasActions[d] = layout.hasActions[d]]_vars

\* a boundary was deleted on a channel that keeps a sample action, while the
\* other channel has actions too
C20_Witness ==
    /\ lastOp.name = "deleteEnvelopeAction"
    /\ EnvActions(actions, 1) = {}
    /\ NoteActions(actions, 1) # {}
    /\ actions_getActionsOnChannel(actions, 2) # {}
    /\ layout.hasActions[1]

-----------------------------------------------------------------------------
(* Properties of envelope deletion and update *)

\* no action of S names, as its prevId or nextId, an id that is not in S
NoDanglingLinks(S) ==
    \A a \in S : /\ a.prevId # 0 => exists(S, a.prevId)
                 /\ a.nextId # 0 => exists(S, a.nextId)

\* C21: deleteEnvelopeAction on a non-boundary action a with predecessor p
\* and successor n relinks p and n before a is removed: after each statement
\* of the operation no stored action names an absent id, and at the end a is
\* absent, p.nextId = n.id, n.prevId = p.id, and p.prevId and n.nextId are
\* as before.
C21_DeleteRelinksNeighboursFirst ==
    [][(lastOp'.name = "deleteEnvelopeAction" /\ fault' = "none"
            /\ \E a \in actions : a.id = lastOp'.args[2] /\ ~IsBoundary(actions, a))
        => LET a  == findAction(actions, lastOp'.args[2])
               p  == findAction(actions, a.prevId)
               n  == findAction(actions, a.nextId)
               tr == deleteEnvelopeAction_steps(Cur, lastOp'.args[1], a)
           IN  /\ \A i \in DOMAIN tr : NoDanglingLinks(tr[i].actions)
               /\ tr[Len(tr)].actions = actions'
               /\ ~exists(actions', a.id)
               /\ findAction(actions', p.id).nextId = n.id
               /\ findAction(actions', n.id).prevId = p.id
               /\ findAction(actions', p.id).prevId = p.prevId
               /\ findAction(actions', n.id).nextId = n.nextId]_vars

\* an interior point was deleted from a chain that keeps another interior point
C21_Witness ==
    /\ lastOp.name = "deleteEnvelopeAction"
    /\ ~exists(actions, lastOp.args[2])
    /\ Cardinality(EnvActions(actions, lastOp.args[1])) >= 3
    /\ NoDanglingLinks(actions)

\* C22: in every envelope chain the envelope operations can reach,
\* isBoundaryEnvelopeAction is true exactly for the actions on frame 0 or on
\* the loop's last frame.
C22_BoundaryIffAtLoopEnds ==
    \A c \in Channels : \A a \in EnvActions(actions, c) :
        isBoundaryEnvelopeAction(actions, a) <=> a.frame \in {0, LastFrame}

-----------------------------------------------------------------------------
(* Properties of live recording *)

\* C24: consolidate commits every buffered action, matched or not, with its
\* id, channel, frame and event, leaves the buffer empty and returns exactly
\* the channel ids of the buffer; the actions stored before stay as they
\* were, and on an empty buffer the store is unchanged and the result empty.
C24_ConsolidateCommitsWholeBuffer ==
    [][(lastOp'.name = "consolidate")
        => LET B == liveActions
           IN  /\ liveActions' = <<>>
               /\ lastOp'.ret = {B[i].channelId : i \in DOMAIN B}
               /\ actions \subseteq actions'
               /\ Ids(actions') = Ids(actions) \cup {B[i].id : i \in DOMAIN B}
               /\ \A i \in DOMAIN B : \E a \in actions' :
                     /\ a.id = B[i].id /\ a.channelId = B[i].channelId
                     /\ a.frame = B[i].frame /\ a.status = B[i].status
                     /\ a.note = B[i].note /\ a.velocity = B[i].velocity
               /\ B = <<>> => (actions' = actions /\ lastOp'.ret = {})]_vars

\* a buffer with an unmatched note-off and an unmatched note-on on two
\* channels was consolidated, and both are in the store
C24_Witness ==
    /\ lastOp.name = "consolidate"
    /\ lastOp.ret = {1, 2}
    /\ liveActions = <<>>
    /\ \E a, b \in actions : /\ a.status = NOTE_OFF /\ a.prevId = 0
                             /\ b.status = NOTE_ON /\ b.nextId = 0
                             /\ a.channelId # b.channelId

\* C25: a liveRec call leaves the store, the hasActions flags and the
\* published snapshot as they were and appends exactly one action, without
\* links, to the end of the live buffer.
C25_LiveRecOnlyAppends ==
    [][(lastOp'.name = "liveRec")
        => /\ UNCHANGED <<actions, layout, published>>
           /\ Len(liveActions') = Len(liveActions) + 1
           /\ SubSeq(liveActions', 1, Len(liveActions)) = liveActions
           /\ LET a == liveActions'[Len(liveActions')]
              IN  /\ a.prevId = 0 /\ a.nextId = 0
                  /\ a.channelId = lastOp'.args[1]
                  /\ a.status = lastOp'.args[2]
                  /\ a.note = lastOp'.args[3]]_vars

\* events were captured after an earlier pass had been consolidated: the
\* store holds that pass, the buffer the new events
C25_Witness ==
    /\ lastOp.name = "liveRec"
    /\ Len(liveActions) >= 2
    /\ actions # {}
    /\ \A c \in Channels : ~layout.hasActions[c]

-----------------------------------------------------------------------------
(* Properties of publication and of ids *)

\* the recording and editing operations of ActionRecorder
EditOps ==
    {"recordMidiAction", "recordSampleAction", "recordEnvelopeAction",
     "deleteMidiAction", "deleteSampleAction", "deleteEnvelopeAction",
     "updateMidiAction", "updateSampleAction", "updateEnvelopeAction",
     "cloneActions", "clearChannel", "clearActions", "clearAllActions"}

\* C26: when a recording or editing operation has returned, no change to the
\* action store or to a hasActions flag is left unpublished: the current
\* snapshot holds the store and the layout as the operation left them.
C26_EveryEditIsPublished ==
    (lastOp.name \in EditOps /\ fault = "none")
        => /\ published.layout = layout
           /\ published.actions = actions

\* the ids of the live buffer B
LiveIds(B) == {B[i].id : i \in DOMAIN B}

\* C27: no two actions among the store and the live buffer share an id, and
\* no action has id 0, whatever was recorded, captured, consolidated, cloned,
\* deleted, cleared or reset before.
C27_IdsUnique ==
    /\ Cardinality(Ids(actions)) = Cardinality(actions)
    /\ Cardinality(LiveIds(liveActions)) = Len(liveActions)
    /\ Ids(actions) \cap LiveIds(liveActions) = {}
    /\ 0 \notin Ids(actions) \cup LiveIds(liveActions)

\* the store holds a channel and its clone while captured events wait in
\* the live buffer
C27_Witness ==
    /\ actions_getActionsOnChannel(actions, 1) # {}
    /\ actions_getActionsOnChannel(actions, 2) # {}
    /\ liveActions # <<>>
    /\ lastOp.name = "cloneActions"

\* the rescaled frame f' of updateBpm before the collapse rule looks at it
RescaledFrame(old, ratio) == truncate(old * ratio[1], ratio[2])

\* the collapse rule of updateBpm changes the rescaled frame f
Collapses(f, quantizerStep) ==
    f > 0 /\ quantizerStep % f > 0 /\ quantizerStep % f =< 6

\* C28: whenever the collapse rule of updateBpm changes a rescaled frame
\* (quantizerStep mod f' in (0, 6]), the frame the action ends on is a
\* multiple of quantizerStep.
C28_CollapsedFrameIsQuantized ==
    [][(lastOp'.name = "updateBpm" /\ ~IdentityRescale(lastOp'))
        => \A a \in actions :
               Collapses(RescaledFrame(a.frame, lastOp'.args[1]), lastOp'.args[2])
                   => \A b \in actions' :
                          b.id = a.id => b.frame % lastOp'.args[2] = 0]_vars

\* the handlers that stop the sequencer
StopOps == {"stopSequencer", "jack_stop"}

\* C29: when the sequencer is about to stop, every active recording is
\* deactivated: once the stop of a running sequencer has run its onAboutStop
\* handler, neither action recording nor input recording is active,
\* whichever of the two, or both, was active before.
C29_StopEndsEveryRecording ==
    [][(lastOp'.name \in StopOps /\ layout.seqRunning)
        => /\ ~layout'.isRecordingActions
           /\ ~layout'.isRecordingInput]_vars

RenderSteps(l) ==
    <<"out.clear", "get_RT">>
        \o (IF l.seqRunning THEN <<"sequencer.advance", "sequencer.render">> ELSE <<>>)
        \o (IF l.seqRunning /\ ~l.locked THEN <<"advanceChannels">> ELSE <<>>)
        \o <<"mixer.render">>

\* C31: an audio callback that registered its thread clears the output
\* buffer first, whatever path it takes. When it returns it has either done
\* nothing else (device not ready), or only taken the snapshot (mixer
\* inactive in the snapshot), or rendered: sequencer advance and sequencer
\* render if and only if the snapshot's sequencer runs, channel advance if
\* and only if it runs and the snapshot's layout is not locked, mixer render
\* last and always.
C31_CallbackStepsInOrder ==
    [][/\ (threads'.entry = "audioCallback" /\ threads' # threads /\ threads'.ok)
          => /\ audio'.out = "cleared"
             /\ audio'.steps # <<>>
             /\ audio'.steps[1] = "out.clear"
       /\ (audio' # audio /\ audio'.pc = "idle" /\ Len(audio'.steps) > 1)
          => audio'.steps = IF audio'.rt.layout.mixerActive
                                THEN RenderSteps(audio'.rt.layout)
                                ELSE <<"out.clear", "get_RT">>]_vars

\* A callback rendered with the sequencer running on a locked layout
C31_Witness ==
    /\ audio.pc = "idle"
    /\ audio.rt.layout.seqRunning
    /\ audio.rt.layout.locked
    /\ audio.steps = <<"out.clear", "get_RT", "sequencer.advance", "sequencer.render",
                       "mixer.render">>

\* in the layout l, the hasActions flag of every channel tells whether the
\* store S holds an action of the channel
FlagsMatchStore(S, l) ==
    \A c \in Channels : l.hasActions[c] <=> actions_getActionsOnChannel(S, c) # {}

\* C32: in every state reached by recorder operations, a channel's
\* hasActions flag is true if and only if the committed store holds at
\* least one action of that channel.
C32_HasActionsMatchesStore == fault = "none" => FlagsMatchStore(actions, layout)

\* C33: after any sequence of recorder operations, recordSample,
\* updateSampleAction and deleteSampleAction interleaved with changes of
\* the channel's playback mode included, every non-zero prevId and nextId of
\* a committed action names an action that is present in the store.
C33_NoDanglingLinks == fault = "none" => NoDanglingLinks(actions)

\* C34: updateBpm preserves the relative order of frames: two stored
\* actions with frames f1 <= f2 before the rescale have frames f1' <= f2'
\* after it (a NOTE_ON stays at or before its NOTE_OFF, an envelope stays
\* ordered by frame).
C34_RescaleKeepsOrder ==
    [][(lastOp'.name = "updateBpm" /\ ~IdentityRescale(lastOp'))
        => \A a, b \in actions :
               a.frame =< b.frame
                   => \A x, y \in actions' :
                          (x.id = a.id /\ y.id = b.id) => x.frame =< y.frame]_vars

\* C35: updateEnvelopeAction on an action that is not a boundary leaves the
\* number of envelope actions of the channel as it was: the edited point is
\* present afterwards, at the requested frame or one frame beside it, for
\* every requested frame, one that collides with a neighbour included.
C35_UpdateKeepsEnvelopeSize ==
    [][(lastOp'.name = "updateEnvelopeAction" /\ fault' = "none"
            /\ ~IsBoundary(actions, findAction(actions, lastOp'.args[2])))
        => LET c == lastOp'.args[1]
               f == lastOp'.args[3]
           IN  /\ Cardinality(EnvActions(actions', c)) = Cardinality(EnvActions(actions, c))
               /\ \E b \in EnvActions(actions', c) :
                      /\ b.id \notin Ids(actions)
                      /\ b.frame \in {f - 1, f, f + 1}]_vars

\* the recorder operations that clear or delete
ClearOps == {"clearAllActions", "clearChannel", "clearActions", "deleteMidiAction",
             "deleteSampleAction", "deleteEnvelopeAction"}

\* C36: every snapshot published by a clearing or deleting recorder
\* operation is consistent in itself: for each channel, the snapshot's
\* hasActions flag is true if and only if the store, as it was when the
\* snapshot was published, holds an action of that channel.
C36_PublishedSnapshotConsistent ==
    [][(lastOp'.name \in ClearOps /\ swapType' # "-" /\ fault' = "none")
        => FlagsMatchStore(published'.actions, published'.layout)]_vars

====
